---- MODULE Spec2Model ----
(***************************************************************************)
(* XSPI.h: register-level SPI / USART-as-SPI driver of PixelStick (XMEGA). *)
(*                                                                         *)
(* The driver is a set of static inline functions over memory-mapped       *)
(* registers.  The model has two halves:                                   *)
(*   - the driver: one action per function for the straight-line           *)
(*     initialisers, one action per statement for the blocking transfer    *)
(*     functions (they interleave with the peripheral);                    *)
(*   - the peripherals (PORT_t, SPI_t, USART_t): the environment, written   *)
(*     from the register semantics the driver relies on.                   *)
(***************************************************************************)
EXTENDS Integers, Sequences, FiniteSets, TLC

VARIABLES
    \* ---- registers written by the initialisers
    portDIR,      \* PORT_t.DIR, the direction register (1 = output)
    portW,        \* writes to DIRSET / DIRCLR made by the last initialiser
    spiCTRL,      \* SPI_t.CTRL
    uBAUDCTRLA,   \* USART_t.BAUDCTRLA
    uBAUDCTRLB,   \* USART_t.BAUDCTRLB
    uCTRLC,       \* USART_t.CTRLC
    uCTRLB,       \* USART_t.CTRLB
    fcpu,         \* F_CPU of the build (config.h)
    cfgCall,      \* the last initialiser call: its name, arguments, prior registers
    \* ---- the driver's blocking call in progress
    path,         \* which peripheral the caller drives: "spi" or "usart"
    wiring,       \* what is on MISO: "loopback" (MOSI wired back) or "slave"
    pc,           \* the source line the call is at; "done" between calls
    op,           \* the function the caller called last
    val,          \* its byte argument
    data,         \* the caller's buffer
    len,          \* the uint8_t len local
    idx,          \* how far the data pointer has advanced
    n0,           \* len as passed
    data0,        \* the buffer as passed
    polled,       \* the call read a status register whose flag was not set
    iters,        \* loop bodies entered by the call
    ret,          \* the byte last read from a data register: [v, tag]
    log,          \* register accesses of the call, in program order
    wire,         \* SPI frames completed during the call: <<mosi, miso>>
    \* ---- SPI_t
    spiBusy,      \* a frame is being shifted
    spiShift,     \* the shift register
    spiDATA,      \* the receive data register
    spiIF,        \* STATUS.IF
    spiRdIF,      \* STATUS was read while IF was set (arms the clear on DATA access)
    \* ---- USART_t in master SPI mode
    uTxBuf,       \* the transmit buffer (DATA when written): at most one frame
    uShift,       \* the transmit shift register: at most one frame
    uRxFifo,      \* the receive buffer (DATA when read): at most two frames
    uTXCIF,       \* STATUS.TXCIF
    uDoneSinceClr \* a frame completed since the driver last cleared TXCIF

cfgVars == <<portDIR, portW, spiCTRL, uBAUDCTRLA, uBAUDCTRLB, uCTRLC, uCTRLB,
             fcpu, cfgCall>>

drvVars == <<pc, op, val, data, len, idx, n0, data0, polled, iters, ret, log>>

spiVars == <<spiBusy, spiShift, spiDATA, spiIF, spiRdIF>>

usartVars == <<uTxBuf, uShift, uRxFifo, uTXCIF, uDoneSinceClr>>

xferVars == <<path, wiring, drvVars, wire, spiVars, usartVars>>

vars == <<cfgVars, xferVars>>

(***************************************************************************)
(* Fixed-width arithmetic                                                  *)
(***************************************************************************)
Byte == 0..255

Pow2(n) == IF n = 0 THEN 1 ELSE
           IF n = 1 THEN 2 ELSE
           IF n = 2 THEN 4 ELSE
           IF n = 3 THEN 8 ELSE
           IF n = 4 THEN 16 ELSE
           IF n = 5 THEN 32 ELSE
           IF n = 6 THEN 64 ELSE 128

\* bit n (0..7) of the 8-bit value x
Bit(x, n) == (x \div Pow2(n)) % 2 = 1

RECURSIVE BitOr(_, _)
BitOr(a, b) ==
    IF a = 0 THEN b
    ELSE IF b = 0 THEN a
    ELSE (IF a % 2 = 1 \/ b % 2 = 1 THEN 1 ELSE 0) + 2 * BitOr(a \div 2, b \div 2)

RECURSIVE BitAndNot(_, _)
\* a & ~b
BitAndNot(a, b) ==
    IF a = 0 THEN 0
    ELSE (IF a % 2 = 1 /\ b % 2 = 0 THEN 1 ELSE 0) + 2 * BitAndNot(a \div 2, b \div 2)

(***************************************************************************)
(* Register bit masks and enumerations of the device header                *)
(***************************************************************************)
SPI_CLK2X_bm  == 128
SPI_ENABLE_bm == 64
SPI_DORD_bm   == 32
SPI_MASTER_bm == 16

\* SPI_MODE_t: SPI_MODE_0_gc .. SPI_MODE_3_gc, bits 3:2 of CTRL
SPI_MODE_t == {0, 4, 8, 12}
\* SPI_PRESCALER_t: DIV4, DIV16, DIV64, DIV128, bits 1:0 of CTRL
SPI_PRESCALER_t == {0, 1, 2, 3}

USART_CMODE_MSPI_gc == 192
USART_RXEN_bm == 16
USART_TXEN_bm == 8

(***************************************************************************)
(* xspi_config_t                                                           *)
(***************************************************************************)
Pins == 0..7

\* every binding with valid pin indices (the pins need not differ)
xspi_config_t == [mosi_pin : Pins, miso_pin : Pins, sck_pin : Pins, ss_pin : Pins]

(***************************************************************************)
(* PORT_t: a write to DIRSET sets, a write to DIRCLR clears, the named     *)
(* bits of DIR; the other bits keep their value.                           *)
(***************************************************************************)
PortWrite(reg, v, dir) ==
    IF reg = "DIRSET" THEN BitOr(dir, v) ELSE BitAndNot(dir, v)

(***************************************************************************)
(* Initialisers                                                            *)
(***************************************************************************)
\* mutant: MISO made an output with the other three
MasterDirMask_WithMiso(config) ==
    BitOr(BitOr(BitOr(Pow2(config.mosi_pin), Pow2(config.sck_pin)), Pow2(config.ss_pin)),
          Pow2(config.miso_pin))

\* line 57: the value written to DIRSET
MasterDirMask(config) ==
    BitOr(BitOr(Pow2(config.mosi_pin), Pow2(config.sck_pin)), Pow2(config.ss_pin))

\* mutant: CTRL |= ... in place of CTRL = ...
MasterCtrlValue_ReadModifyWrite(mode, lsb, prescaler, clk2x) ==
    BitOr(spiCTRL,
          BitOr(BitOr(BitOr(BitOr(BitOr(SPI_ENABLE_bm, SPI_MASTER_bm), mode), prescaler),
                      IF clk2x THEN SPI_CLK2X_bm ELSE 0),
                IF lsb THEN SPI_DORD_bm ELSE 0))

\* lines 58-59: the value written to CTRL
MasterCtrlValue(mode, lsb, prescaler, clk2x) ==
    BitOr(BitOr(BitOr(BitOr(BitOr(SPI_ENABLE_bm, SPI_MASTER_bm), mode), prescaler),
                IF clk2x THEN SPI_CLK2X_bm ELSE 0),
          IF lsb THEN SPI_DORD_bm ELSE 0)

\* the DIRSET / DIRCLR writes of xspi_master_init, in program order
MasterPortWrites(config) == << <<"DIRSET", MasterDirMask(config)>> >>

RECURSIVE ApplyPortWrites(_, _)
ApplyPortWrites(ws, dir) ==
    IF ws = <<>> THEN dir
    ELSE ApplyPortWrites(Tail(ws), PortWrite(Head(ws)[1], Head(ws)[2], dir))

xspi_master_init(config, mode, lsb, prescaler, clk2x) ==
    /\ portW' = MasterPortWrites(config)
    /\ portDIR' = ApplyPortWrites(portW', portDIR)
    /\ spiCTRL' = MasterCtrlValue(mode, lsb, prescaler, clk2x)
    /\ cfgCall' = [fn |-> "xspi_master_init", config |-> config, mode |-> mode,
                   lsb |-> lsb, prescaler |-> prescaler, clk2x |-> clk2x,
                   baudrate |-> 0, dir0 |-> portDIR,
                   cleared |-> BitAndNot(spiCTRL, spiCTRL') # 0]
    /\ UNCHANGED <<uBAUDCTRLA, uBAUDCTRLB, uCTRLC, uCTRLB, fcpu, xferVars>>

\* lines 69-70
SlavePortWrites(config) ==
    << <<"DIRSET", Pow2(config.miso_pin)>>,
       <<"DIRCLR", BitOr(Pow2(config.sck_pin), Pow2(config.ss_pin))>> >>

\* line 71
SlaveCtrlValue(mode, lsb) ==
    BitOr(BitOr(SPI_ENABLE_bm, mode), IF lsb THEN SPI_DORD_bm ELSE 0)

xspi_slave_init(config, mode, lsb) ==
    /\ portW' = SlavePortWrites(config)
    /\ portDIR' = ApplyPortWrites(portW', portDIR)
    /\ spiCTRL' = SlaveCtrlValue(mode, lsb)
    /\ cfgCall' = [fn |-> "xspi_slave_init", config |-> config, mode |-> mode,
                   lsb |-> lsb, prescaler |-> 0, clk2x |-> FALSE,
                   baudrate |-> 0, dir0 |-> portDIR,
                   cleared |-> BitAndNot(spiCTRL, spiCTRL') # 0]
    /\ UNCHANGED <<uBAUDCTRLA, uBAUDCTRLB, uCTRLC, uCTRLB, fcpu, xferVars>>

\* mutant: the divisor without its - 1
SERIAL_SPI_UBBRVAL_NoMinusOne(Baud) ==
    IF Baud < (fcpu \div 2) THEN fcpu \div (2 * Baud) ELSE 0

\* line 114.  Baud is a uint32_t and F_CPU fits 32 bits, so in the first branch
\* 2 * Baud < F_CPU does not wrap; the branch is only evaluated when taken.
SERIAL_SPI_UBBRVAL(Baud) ==
    IF Baud < (fcpu \div 2) THEN (fcpu \div (2 * Baud)) - 1 ELSE 0

\* line 125: the conversion of the macro's value to uint16_t
BaudVal(baudrate) == SERIAL_SPI_UBBRVAL(baudrate) % 65536

xspi_usart_master_init(mode, baudrate) ==
    /\ uBAUDCTRLB' = (BaudVal(baudrate) \div 256) % 256
    /\ uBAUDCTRLA' = BaudVal(baudrate) % 256
    /\ uCTRLC' = BitOr(USART_CMODE_MSPI_gc, mode)
    /\ uCTRLB' = BitOr(USART_RXEN_bm, USART_TXEN_bm)
    /\ cfgCall' = [fn |-> "xspi_usart_master_init", config |-> cfgCall.config,
                   mode |-> mode, lsb |-> FALSE, prescaler |-> 0, clk2x |-> FALSE,
                   baudrate |-> baudrate, dir0 |-> portDIR, cleared |-> FALSE]
    /\ UNCHANGED <<portDIR, portW, spiCTRL, fcpu, xferVars>>

(***************************************************************************)
(* The registers after reset, no initialiser called                        *)
(***************************************************************************)
\* the SPIC/SPID pin assignment of the device: SS 4, MOSI 5, MISO 6, SCK 7
DefaultConfig == [mosi_pin |-> 5, miso_pin |-> 6, sck_pin |-> 7, ss_pin |-> 4]

NoCall == [fn |-> "none", config |-> DefaultConfig, mode |-> 0, lsb |-> FALSE,
           prescaler |-> 0, clk2x |-> FALSE, baudrate |-> 0, dir0 |-> 0,
           cleared |-> FALSE]

\* clock frequencies of the builds the baud computation is checked for
F_CPU_Values == {2000000, 32000000}

CfgReset ==
    /\ portW = <<>>
    /\ uCTRLC = 0
    /\ uCTRLB = 0
    /\ cfgCall = NoCall

(***************************************************************************)
(* The peripherals after reset, no call made                               *)
(***************************************************************************)
NoByte == [v |-> 0, tag |-> "none"]

XferReset ==
    /\ pc = "done"
    /\ op = "none"
    /\ val = 0
    /\ data = <<>>
    /\ len = 0
    /\ idx = 0
    /\ n0 = 0
    /\ data0 = <<>>
    /\ polled = FALSE
    /\ iters = 0
    /\ ret = NoByte
    /\ log = <<>>
    /\ wire = <<>>
    /\ spiBusy = FALSE
    /\ spiShift = 0
    /\ spiDATA = 0
    /\ spiIF = FALSE
    /\ spiRdIF = FALSE
    /\ uTxBuf = <<>>
    /\ uShift = <<>>
    /\ uRxFifo = <<>>
    /\ uTXCIF = FALSE
    /\ uDoneSinceClr = FALSE

(***************************************************************************)
(* SPI_t: the SPI module as the driver sees it.  A write to DATA starts a   *)
(* frame (a write during a frame is a write collision and is dropped).     *)
(* When the frame is over the byte shifted in is in DATA and IF is set.    *)
(* IF is cleared by reading STATUS while it is set and then accessing      *)
(* DATA.                                                                   *)
(***************************************************************************)
\* bytes the caller and the slave use
ByteVals == {165, 255}

SpiAccessDATA ==
    IF spiRdIF THEN spiIF' = FALSE /\ spiRdIF' = FALSE
               ELSE UNCHANGED <<spiIF, spiRdIF>>

SpiWriteDATA(v) ==
    /\ SpiAccessDATA
    /\ IF spiBusy THEN UNCHANGED <<spiBusy, spiShift>>
                  ELSE spiBusy' = TRUE /\ spiShift' = v
    /\ UNCHANGED spiDATA

SpiReadDATA ==
    /\ SpiAccessDATA
    /\ UNCHANGED <<spiBusy, spiShift, spiDATA>>

SpiReadSTATUS ==
    /\ spiRdIF' = (spiRdIF \/ spiIF)
    /\ UNCHANGED <<spiBusy, spiShift, spiDATA, spiIF>>

\* what the other end shifts back while v is shifted out
Response(v) == IF wiring = "loopback" THEN {v} ELSE ByteVals

SpiShiftDone ==
    /\ spiBusy
    /\ \E r \in Response(spiShift) :
        /\ spiShift' = r
        /\ spiDATA' = r
        /\ wire' = Append(wire, <<spiShift, r>>)
    /\ spiBusy' = FALSE
    /\ spiIF' = TRUE
    /\ spiRdIF' = FALSE
    /\ UNCHANGED <<cfgVars, path, wiring, drvVars, usartVars>>

(***************************************************************************)
(* USART_t in master SPI mode.  DATA written is the transmit buffer, which  *)
(* takes a byte only while it is empty (DREIF); the byte moves to the      *)
(* shift register when that is free.  When a frame is over the byte        *)
(* shifted in enters the two-deep receive buffer (it is lost when the      *)
(* buffer is full), and the next frame starts if the transmit buffer holds *)
(* one; if not, TXCIF is set.  TXCIF stays set until the driver writes a   *)
(* one to it.  Each frame carries a tag: "own" for the last byte the       *)
(* running call wrote, "call" for its earlier ones, "old" for bytes of     *)
(* earlier calls.                                                          *)
(***************************************************************************)
Retag(f, from, to) == IF f.tag \in from THEN [f EXCEPT !.tag = to] ELSE f

RetagAll(q, from, to) == [i \in 1..Len(q) |-> Retag(q[i], from, to)]

UsartDREIF == uTxBuf = <<>>

UsartWriteDATA(v) ==
    /\ uTxBuf' = IF UsartDREIF THEN <<[v |-> v, tag |-> "own"]>>
                               ELSE RetagAll(uTxBuf, {"own"}, "call")
    /\ uShift' = RetagAll(uShift, {"own"}, "call")
    /\ uRxFifo' = RetagAll(uRxFifo, {"own"}, "call")
    /\ UNCHANGED <<uTXCIF, uDoneSinceClr>>

UsartReadSTATUS == UNCHANGED usartVars

UsartClearTXCIF ==
    /\ uTXCIF' = FALSE
    /\ uDoneSinceClr' = FALSE
    /\ UNCHANGED <<uTxBuf, uShift, uRxFifo>>

\* the byte a read of DATA returns: the oldest received one
UsartRxHead == IF uRxFifo = <<>> THEN [v |-> 0, tag |-> "old"] ELSE Head(uRxFifo)

UsartReadDATA ==
    /\ uRxFifo' = IF uRxFifo = <<>> THEN <<>> ELSE Tail(uRxFifo)
    /\ UNCHANGED <<uTxBuf, uShift, uTXCIF, uDoneSinceClr>>

RxDepth == 2

UsartLoad ==
    /\ uShift = <<>>
    /\ uTxBuf # <<>>
    /\ uShift' = uTxBuf
    /\ uTxBuf' = <<>>
    /\ UNCHANGED <<uRxFifo, uTXCIF, uDoneSinceClr>>
    /\ UNCHANGED <<cfgVars, path, wiring, drvVars, wire, spiVars>>

UsartShiftDone ==
    /\ uShift # <<>>
    /\ \E r \in Response(uShift[1].v) :
        /\ uRxFifo' = IF Len(uRxFifo) < RxDepth
                      THEN Append(uRxFifo, [v |-> r, tag |-> uShift[1].tag])
                      ELSE uRxFifo
    /\ uShift' = uTxBuf
    /\ uTxBuf' = <<>>
    /\ uTXCIF' = (uTXCIF \/ uTxBuf = <<>>)
    /\ uDoneSinceClr' = TRUE
    /\ UNCHANGED <<cfgVars, path, wiring, drvVars, wire, spiVars>>

(***************************************************************************)
(* The caller: between calls (pc = "done") it calls one of the transfer    *)
(* functions of the peripheral it drives.                                  *)
(***************************************************************************)
MaxLen == 3

\* buffers of at most MaxLen bytes
Buffers == UNION {[1..n -> ByteVals] : n \in 0..MaxLen}

\* receive buffers: n bytes, zero before the call
RxBuffers == {[i \in 1..n |-> 0] : n \in 0..MaxLen}

Call(fn, entry, v, buf, n) ==
    /\ pc = "done"
    /\ pc' = entry
    /\ op' = fn
    /\ val' = v
    /\ data' = buf
    /\ len' = n
    /\ n0' = n
    /\ data0' = buf
    /\ polled' = FALSE
    /\ idx' = 0
    /\ iters' = 0
    /\ ret' = NoByte
    /\ log' = <<>>
    /\ wire' = <<>>
    /\ uTxBuf' = RetagAll(uTxBuf, {"own", "call"}, "old")
    /\ uShift' = RetagAll(uShift, {"own", "call"}, "old")
    /\ uRxFifo' = RetagAll(uRxFifo, {"own", "call"}, "old")
    /\ UNCHANGED <<cfgVars, path, wiring, spiVars, uTXCIF, uDoneSinceClr>>

Call_xspi_transfer_byte ==
    /\ path = "spi"
    /\ \E v \in ByteVals : Call("xspi_transfer_byte", "L79", v, <<>>, 0)

Call_xspi_send_packet ==
    /\ path = "spi"
    /\ \E buf \in Buffers : \E n \in 0..Len(buf) :
           Call("xspi_send_packet", "L90", 0, buf, n)

Call_xspi_get_packet ==
    /\ path = "spi"
    /\ \E buf \in RxBuffers : Call("xspi_get_packet", "L102", 0, buf, Len(buf))

Call_xspi_usart_transfer_byte ==
    /\ path = "usart"
    /\ \E v \in ByteVals : Call("xspi_usart_transfer_byte", "L139", v, <<>>, 0)

Call_xspi_usart_send_byte ==
    /\ path = "usart"
    /\ \E v \in ByteVals : Call("xspi_usart_send_byte", "L150", v, <<>>, 0)

\* line 159: xspi_usart_get_byte is xspi_usart_transfer_byte(usart, 0xFF)
Call_xspi_usart_get_byte ==
    /\ path = "usart"
    /\ Call("xspi_usart_get_byte", "L139", 255, <<>>, 0)

Call_xspi_usart_send_packet ==
    /\ path = "usart"
    /\ \E buf \in Buffers : Call("xspi_usart_send_packet", "L168", 0, buf, Len(buf))

Call_xspi_usart_get_packet ==
    /\ path = "usart"
    /\ \E buf \in RxBuffers : Call("xspi_usart_get_packet", "L178", 0, buf, Len(buf))

(***************************************************************************)
(* The transfer functions, one action per statement.  A polling loop is    *)
(* one action: it reads the status register and leaves the loop when the   *)
(* flag is set; when it is not, the read changes nothing and the loop      *)
(* stays where it is.                                                      *)
(***************************************************************************)
\* while (len--): the test of len and its decrement as a uint8_t
LoopTest(n) == n # 0

LoopDec(n) == (n + 255) % 256

\* ---- xspi_transfer_byte, lines 78-82
xspi_transfer_byte_L79 ==
    /\ pc = "L79"
    /\ SpiWriteDATA(val)
    /\ log' = Append(log, <<"wD", val>>)
    /\ pc' = "L80"
    /\ UNCHANGED <<cfgVars, path, wiring, op, val, data, len, idx, n0, data0, polled, iters, ret,
                   wire, usartVars>>

\* mutant: the data register read without waiting for IF
xspi_transfer_byte_L80_NoWait ==
    /\ pc = "L80"
    /\ SpiReadSTATUS
    /\ pc' = "L81"
    /\ log' = Append(log, <<"rS">>)
    /\ UNCHANGED <<cfgVars, path, wiring, op, val, data, len, idx, n0, data0, polled,
                   iters, ret, wire, usartVars>>

xspi_transfer_byte_L80 ==
    /\ pc = "L80"
    /\ SpiReadSTATUS
    /\ IF spiIF THEN pc' = "L81" /\ log' = Append(log, <<"rS">>) /\ UNCHANGED polled
                ELSE polled' = TRUE /\ UNCHANGED <<pc, log>>
    /\ UNCHANGED <<cfgVars, path, wiring, op, val, data, len, idx, n0, data0, iters, ret,
                   wire, usartVars>>

xspi_transfer_byte_L81 ==
    /\ pc = "L81"
    /\ ret' = [v |-> spiDATA, tag |-> "spi"]
    /\ SpiReadDATA
    /\ log' = Append(log, <<"rD", spiDATA>>)
    /\ pc' = "done"
    /\ UNCHANGED <<cfgVars, path, wiring, op, val, data, len, idx, n0, data0, polled, iters,
                   wire, usartVars>>

\* ---- xspi_send_packet, lines 89-94
xspi_send_packet_L90 ==
    /\ pc = "L90"
    /\ IF LoopTest(len) THEN pc' = "L91" /\ iters' = iters + 1
                        ELSE pc' = "done" /\ UNCHANGED iters
    /\ len' = LoopDec(len)
    /\ UNCHANGED <<cfgVars, path, wiring, op, val, data, idx, n0, data0, polled, ret, log,
                   wire, spiVars, usartVars>>

\* mutant: *data in place of *data++
xspi_send_packet_L91_NoAdvance ==
    /\ pc = "L91"
    /\ SpiWriteDATA(data[1])
    /\ log' = Append(log, <<"wD", data[1]>>)
    /\ pc' = "L92"
    /\ UNCHANGED <<cfgVars, path, wiring, op, val, data, len, idx, n0, data0, polled,
                   iters, ret, wire, usartVars>>

xspi_send_packet_L91 ==
    /\ pc = "L91"
    /\ SpiWriteDATA(data[idx + 1])
    /\ idx' = idx + 1
    /\ log' = Append(log, <<"wD", data[idx + 1]>>)
    /\ pc' = "L92"
    /\ UNCHANGED <<cfgVars, path, wiring, op, val, data, len, n0, data0, polled, iters, ret,
                   wire, usartVars>>

\* mutant: the next byte written without waiting for IF
xspi_send_packet_L92_NoWait ==
    /\ pc = "L92"
    /\ SpiReadSTATUS
    /\ pc' = "L90"
    /\ log' = Append(log, <<"rS">>)
    /\ UNCHANGED <<cfgVars, path, wiring, op, val, data, len, idx, n0, data0, polled,
                   iters, ret, wire, usartVars>>

xspi_send_packet_L92 ==
    /\ pc = "L92"
    /\ SpiReadSTATUS
    /\ IF spiIF THEN pc' = "L90" /\ log' = Append(log, <<"rS">>) /\ UNCHANGED polled
                ELSE polled' = TRUE /\ UNCHANGED <<pc, log>>
    /\ UNCHANGED <<cfgVars, path, wiring, op, val, data, len, idx, n0, data0, iters, ret,
                   wire, usartVars>>

\* ---- xspi_get_packet, lines 101-107
xspi_get_packet_L102 ==
    /\ pc = "L102"
    /\ IF LoopTest(len) THEN pc' = "L103" /\ iters' = iters + 1
                        ELSE pc' = "done" /\ UNCHANGED iters
    /\ len' = LoopDec(len)
    /\ UNCHANGED <<cfgVars, path, wiring, op, val, data, idx, n0, data0, polled, ret, log,
                   wire, spiVars, usartVars>>

\* the byte xspi_get_packet and xspi_usart_get_byte send to clock one in
Filler == 255

xspi_get_packet_L103 ==
    /\ pc = "L103"
    /\ SpiWriteDATA(Filler)
    /\ log' = Append(log, <<"wD", Filler>>)
    /\ pc' = "L104"
    /\ UNCHANGED <<cfgVars, path, wiring, op, val, data, len, idx, n0, data0, polled, iters, ret,
                   wire, usartVars>>

xspi_get_packet_L104 ==
    /\ pc = "L104"
    /\ SpiReadSTATUS
    /\ IF spiIF THEN pc' = "L105" /\ log' = Append(log, <<"rS">>) /\ UNCHANGED polled
                ELSE polled' = TRUE /\ UNCHANGED <<pc, log>>
    /\ UNCHANGED <<cfgVars, path, wiring, op, val, data, len, idx, n0, data0, iters, ret,
                   wire, usartVars>>

\* mutant: *data in place of *data++
xspi_get_packet_L105_NoAdvance ==
    /\ pc = "L105"
    /\ data' = [data EXCEPT ![1] = spiDATA]
    /\ ret' = [v |-> spiDATA, tag |-> "spi"]
    /\ SpiReadDATA
    /\ log' = Append(log, <<"rD", spiDATA>>)
    /\ pc' = "L102"
    /\ UNCHANGED <<cfgVars, path, wiring, op, val, len, idx, n0, data0, polled, iters,
                   wire, usartVars>>

xspi_get_packet_L105 ==
    /\ pc = "L105"
    /\ data' = [data EXCEPT ![idx + 1] = spiDATA]
    /\ idx' = idx + 1
    /\ ret' = [v |-> spiDATA, tag |-> "spi"]
    /\ SpiReadDATA
    /\ log' = Append(log, <<"rD", spiDATA>>)
    /\ pc' = "L102"
    /\ UNCHANGED <<cfgVars, path, wiring, op, val, len, n0, data0, polled, iters, wire, usartVars>>

\* ---- xspi_usart_transfer_byte, lines 138-143
xspi_usart_transfer_byte_L139 ==
    /\ pc = "L139"
    /\ UsartWriteDATA(val)
    /\ log' = Append(log, <<"wD", val>>)
    /\ pc' = "L140"
    /\ UNCHANGED <<cfgVars, path, wiring, op, val, data, len, idx, n0, data0, polled, iters, ret,
                   wire, spiVars>>

xspi_usart_transfer_byte_L140 ==
    /\ pc = "L140"
    /\ UsartReadSTATUS
    /\ IF uTXCIF THEN pc' = "L141" /\ log' = Append(log, <<"rS">>) /\ UNCHANGED polled
                 ELSE polled' = TRUE /\ UNCHANGED <<pc, log>>
    /\ UNCHANGED <<cfgVars, path, wiring, op, val, data, len, idx, n0, data0, iters, ret,
                   wire, spiVars>>

\* mutant: line 141 left out, as on the SPI path
xspi_usart_transfer_byte_L141_NoClear ==
    /\ pc = "L141"
    /\ pc' = "L142"
    /\ UNCHANGED <<cfgVars, path, wiring, op, val, data, len, idx, n0, data0, polled,
                   iters, ret, log, wire, spiVars, usartVars>>

xspi_usart_transfer_byte_L141 ==
    /\ pc = "L141"
    /\ UsartClearTXCIF
    /\ log' = Append(log, <<"wS">>)
    /\ pc' = "L142"
    /\ UNCHANGED <<cfgVars, path, wiring, op, val, data, len, idx, n0, data0, polled, iters, ret,
                   wire, spiVars>>

\* line 142; the value goes back to the caller, or to line 179 of
\* xspi_usart_get_packet
xspi_usart_transfer_byte_L142 ==
    /\ pc = "L142"
    /\ ret' = UsartRxHead
    /\ UsartReadDATA
    /\ log' = Append(log, <<"rD", UsartRxHead.v>>)
    /\ pc' = IF op = "xspi_usart_get_packet" THEN "L179" ELSE "done"
    /\ UNCHANGED <<cfgVars, path, wiring, op, val, data, len, idx, n0, data0, polled, iters,
                   wire, spiVars>>

\* ---- xspi_usart_send_byte, lines 149-152
\* mutant: the byte written without waiting for DREIF
xspi_usart_send_byte_L150_NoWait ==
    /\ pc = "L150"
    /\ UsartReadSTATUS
    /\ pc' = "L151"
    /\ log' = Append(log, <<"rS">>)
    /\ UNCHANGED <<cfgVars, path, wiring, op, val, data, len, idx, n0, data0, polled,
                   iters, ret, wire, spiVars>>

xspi_usart_send_byte_L150 ==
    /\ pc = "L150"
    /\ UsartReadSTATUS
    /\ IF UsartDREIF THEN pc' = "L151" /\ log' = Append(log, <<"rS">>) /\ UNCHANGED polled
                     ELSE polled' = TRUE /\ UNCHANGED <<pc, log>>
    /\ UNCHANGED <<cfgVars, path, wiring, op, val, data, len, idx, n0, data0, iters, ret,
                   wire, spiVars>>

\* line 151; back to the caller, or to the loop of xspi_usart_send_packet
xspi_usart_send_byte_L151 ==
    /\ pc = "L151"
    /\ UsartWriteDATA(val)
    /\ log' = Append(log, <<"wD", val>>)
    /\ pc' = IF op = "xspi_usart_send_packet" THEN "L168" ELSE "done"
    /\ UNCHANGED <<cfgVars, path, wiring, op, val, data, len, idx, n0, data0, polled, iters, ret,
                   wire, spiVars>>

\* ---- xspi_usart_send_packet, lines 167-170: the loop test, and the call of
\* xspi_usart_send_byte with *data++
xspi_usart_send_packet_L168 ==
    /\ pc = "L168"
    /\ IF LoopTest(len)
       THEN /\ pc' = "L150"
            /\ iters' = iters + 1
            /\ val' = data[idx + 1]
            /\ idx' = idx + 1
       ELSE /\ pc' = "done"
            /\ UNCHANGED <<iters, val, idx>>
    /\ len' = LoopDec(len)
    /\ UNCHANGED <<cfgVars, path, wiring, op, data, n0, data0, polled, ret, log,
                   wire, spiVars, usartVars>>

\* ---- xspi_usart_get_packet, lines 177-180: the loop test and the call of
\* xspi_usart_get_byte, then the store of its result
xspi_usart_get_packet_L178 ==
    /\ pc = "L178"
    /\ IF LoopTest(len)
       THEN /\ pc' = "L139"
            /\ iters' = iters + 1
            /\ val' = Filler
       ELSE /\ pc' = "done"
            /\ UNCHANGED <<iters, val>>
    /\ len' = LoopDec(len)
    /\ UNCHANGED <<cfgVars, path, wiring, op, data, idx, n0, data0, polled, ret, log,
                   wire, spiVars, usartVars>>

xspi_usart_get_packet_L179 ==
    /\ pc = "L179"
    /\ data' = [data EXCEPT ![idx + 1] = ret.v]
    /\ idx' = idx + 1
    /\ pc' = "L178"
    /\ UNCHANGED <<cfgVars, path, wiring, op, val, len, n0, data0, polled, iters, ret, log,
                   wire, spiVars, usartVars>>

(***************************************************************************)
(* Spec: the transfer functions against the peripherals                    *)
(***************************************************************************)
Init ==
    /\ CfgReset
    /\ portDIR = 0
    /\ spiCTRL = 0
    /\ uBAUDCTRLA = 0
    /\ uBAUDCTRLB = 0
    /\ fcpu = 32000000
    /\ path \in {"spi", "usart"}
    /\ wiring \in {"loopback", "slave"}
    /\ XferReset

CallStep ==
    \/ Call_xspi_transfer_byte
    \/ Call_xspi_send_packet
    \/ Call_xspi_get_packet
    \/ Call_xspi_usart_transfer_byte
    \/ Call_xspi_usart_send_byte
    \/ Call_xspi_usart_get_byte
    \/ Call_xspi_usart_send_packet
    \/ Call_xspi_usart_get_packet

DriverStep ==
    \/ xspi_transfer_byte_L79
    \/ xspi_transfer_byte_L80
    \/ xspi_transfer_byte_L81
    \/ xspi_send_packet_L90
    \/ xspi_send_packet_L91
    \/ xspi_send_packet_L92
    \/ xspi_get_packet_L102
    \/ xspi_get_packet_L103
    \/ xspi_get_packet_L104
    \/ xspi_get_packet_L105
    \/ xspi_usart_transfer_byte_L139
    \/ xspi_usart_transfer_byte_L140
    \/ xspi_usart_transfer_byte_L141
    \/ xspi_usart_transfer_byte_L142
    \/ xspi_usart_send_byte_L150
    \/ xspi_usart_send_byte_L151
    \/ xspi_usart_send_packet_L168
    \/ xspi_usart_get_packet_L178
    \/ xspi_usart_get_packet_L179

HardwareStep ==
    \/ SpiShiftDone
    \/ UsartLoad
    \/ UsartShiftDone

Next == CallStep \/ DriverStep \/ HardwareStep

Spec == Init /\ [][Next]_vars

\* the same with a processor that keeps executing and peripherals that finish
\* every frame they started
FairSpec ==
    /\ Init
    /\ [][Next]_vars
    /\ WF_vars(DriverStep)
    /\ WF_vars(SpiShiftDone)
    /\ WF_vars(UsartLoad)
    /\ WF_vars(UsartShiftDone)

\* ---- SpecByte: xspi_transfer_byte alone, with every byte value
Call_xspi_transfer_any_byte ==
    /\ path = "spi"
    /\ \E v \in Byte : Call("xspi_transfer_byte", "L79", v, <<>>, 0)

InitByte ==
    /\ Init
    /\ path = "spi"

NextByte ==
    \/ Call_xspi_transfer_any_byte
    \/ xspi_transfer_byte_L79
    \/ xspi_transfer_byte_L80
    \/ xspi_transfer_byte_L81
    \/ SpiShiftDone

SpecByte == InitByte /\ [][NextByte]_vars

(***************************************************************************)
(* Specifications of the initialisers                                      *)
(***************************************************************************)
\* ---- SpecDir: one initialiser call on any binding, from any direction register
InitDir ==
    /\ CfgReset
    /\ portDIR \in Byte
    /\ spiCTRL = 0
    /\ uBAUDCTRLA = 0
    /\ uBAUDCTRLB = 0
    /\ fcpu = 32000000
    /\ path = "spi"
    /\ wiring = "slave"
    /\ XferReset

\* every choice of MOSI, SCK and SS (equal or not), MISO next to MOSI
DirMasterConfigs ==
    {[mosi_pin |-> m, miso_pin |-> (m + 1) % 8, sck_pin |-> s, ss_pin |-> x] :
        m \in Pins, s \in Pins, x \in Pins}

\* every choice of MISO and SCK, SS next to SCK
DirSlaveConfigs ==
    {[mosi_pin |-> (m + 7) % 8, miso_pin |-> m, sck_pin |-> s, ss_pin |-> (s + 1) % 8] :
        m \in Pins, s \in Pins}

DirMasterCall ==
    /\ cfgCall.fn = "none"
    /\ \E config \in DirMasterConfigs :
           xspi_master_init(config, 0, FALSE, 0, FALSE)

DirSlaveCall ==
    /\ cfgCall.fn = "none"
    /\ \E config \in DirSlaveConfigs :
           xspi_slave_init(config, 0, FALSE)

NextDir == DirMasterCall \/ DirSlaveCall

SpecDir == InitDir /\ [][NextDir]_vars

\* ---- SpecCtrl: any sequence of SPI initialiser calls, from any control register
CtrlConfigs == {DefaultConfig}

InitCtrl ==
    /\ CfgReset
    /\ portDIR = 0
    /\ spiCTRL \in Byte
    /\ uBAUDCTRLA = 0
    /\ uBAUDCTRLB = 0
    /\ fcpu = 32000000
    /\ path = "spi"
    /\ wiring = "slave"
    /\ XferReset

CtrlMasterCall ==
    \E config \in CtrlConfigs, mode \in SPI_MODE_t, lsb \in BOOLEAN,
       prescaler \in SPI_PRESCALER_t, clk2x \in BOOLEAN :
        xspi_master_init(config, mode, lsb, prescaler, clk2x)

CtrlSlaveCall ==
    \E config \in CtrlConfigs, mode \in SPI_MODE_t, lsb \in BOOLEAN :
        xspi_slave_init(config, mode, lsb)

NextCtrl == CtrlMasterCall \/ CtrlSlaveCall

SpecCtrl == InitCtrl /\ [][NextCtrl]_vars

\* ---- SpecBaud: one USART initialiser call, from baud registers that hold something
\* requested rates: every rate up to LowBaudMax (the divisor overflows 16 bits
\* below 245 baud at 32 MHz), the usual rates, and the rates around F_CPU / 2
LowBaudMax == 260

BaudRates ==
    (1..LowBaudMax)
    \cup {9600, 115200, 500000, 999999, 1000000, 1000001, 4000000, 8000000,
          15999999, 16000000, 16000001, 32000000, 2147483647}

InitBaud ==
    /\ CfgReset
    /\ portDIR = 0
    /\ spiCTRL = 0
    /\ uBAUDCTRLA \in {0, 255}
    /\ uBAUDCTRLB \in {0, 255}
    /\ fcpu \in F_CPU_Values
    /\ path = "usart"
    /\ wiring = "slave"
    /\ XferReset

BaudCall ==
    /\ cfgCall.fn = "none"
    /\ \E mode \in SPI_MODE_t, baudrate \in BaudRates :
           xspi_usart_master_init(mode, baudrate)

NextBaud == BaudCall

SpecBaud == InitBaud /\ [][NextBaud]_vars

(***************************************************************************)
(* C1..C3: the initialisers                                                *)
(***************************************************************************)
MasterPins(c) == {c.mosi_pin, c.sck_pin, c.ss_pin}

\* C1: after xspi_master_init, a pin of the port is an output iff it is MOSI,
\* SCK or SS of the binding or it was an output before; the one port write made
\* is a DIRSET of exactly the three pins' bits, and DIRCLR is not written.
C1_MasterDir ==
    cfgCall.fn = "xspi_master_init" =>
        /\ \A b \in Pins :
               Bit(portDIR, b) <=> (b \in MasterPins(cfgCall.config) \/ Bit(cfgCall.dir0, b))
        /\ Len(portW) = 1
        /\ portW[1][1] = "DIRSET"
        /\ \A b \in Pins : Bit(portW[1][2], b) <=> b \in MasterPins(cfgCall.config)
        /\ portW[1][2] \in Byte
        /\ \A i \in 1..Len(portW) : portW[i][1] # "DIRCLR"

\* a call on three different pins, MISO apart and an input before, one of the
\* three already an output and another pin of the port an output too
C1_Witness ==
    /\ cfgCall.fn = "xspi_master_init"
    /\ Cardinality(MasterPins(cfgCall.config)) = 3
    /\ cfgCall.config.miso_pin \notin MasterPins(cfgCall.config)
    /\ ~Bit(cfgCall.dir0, cfgCall.config.miso_pin)
    /\ ~Bit(portDIR, cfgCall.config.miso_pin)
    /\ Bit(cfgCall.dir0, cfgCall.config.sck_pin)
    /\ ~Bit(cfgCall.dir0, cfgCall.config.mosi_pin)
    /\ \E b \in Pins \ (MasterPins(cfgCall.config) \cup {cfgCall.config.miso_pin}) :
           Bit(cfgCall.dir0, b) /\ Bit(portDIR, b)

\* the index (0..3) of a mode or prescaler in bits hi:lo of a register value
Field2(x, lo) == (IF Bit(x, lo + 1) THEN 2 ELSE 0) + (IF Bit(x, lo) THEN 1 ELSE 0)

\* C2: after xspi_master_init the control register has, bit by bit, CLK2X (7)
\* iff clk2x, ENABLE (6) set, DORD (5) iff lsb, MASTER (4) set, the mode in bits
\* 3:2 and the prescaler in bits 1:0, whatever the register held before and
\* whatever calls came before.
C2_MasterCtrl ==
    cfgCall.fn = "xspi_master_init" =>
        /\ spiCTRL \in Byte
        /\ Bit(spiCTRL, 7) <=> cfgCall.clk2x
        /\ Bit(spiCTRL, 6)
        /\ Bit(spiCTRL, 5) <=> cfgCall.lsb
        /\ Bit(spiCTRL, 4)
        /\ Field2(spiCTRL, 2) * 4 = cfgCall.mode
        /\ Field2(spiCTRL, 0) = cfgCall.prescaler

\* a reconfiguration: the register held a different value with bits the new
\* configuration does not have
C2_Witness ==
    /\ cfgCall.fn = "xspi_master_init"
    /\ cfgCall.cleared
    /\ cfgCall.mode = 8
    /\ cfgCall.prescaler = 2
    /\ cfgCall.lsb
    /\ ~cfgCall.clk2x

\* the divisor the specification gives for a rate
SpecDivisor(baudrate) ==
    IF baudrate >= fcpu \div 2 THEN 0 ELSE fcpu \div (2 * baudrate) - 1

\* C3: after xspi_usart_master_init(baudrate), BAUDCTRLB holds bits 15..8 and
\* BAUDCTRLA bits 7..0 of the divisor reduced modulo 2^16.
C3_BaudRegisters ==
    cfgCall.fn = "xspi_usart_master_init" =>
        /\ uBAUDCTRLA \in Byte
        /\ uBAUDCTRLB \in Byte
        /\ uBAUDCTRLB * 256 + uBAUDCTRLA = SpecDivisor(cfgCall.baudrate) % 65536

\* a rate whose divisor does not fit 16 bits: the registers hold its low 16 bits
C3_Witness ==
    /\ cfgCall.fn = "xspi_usart_master_init"
    /\ SpecDivisor(cfgCall.baudrate) > 65535
    /\ uBAUDCTRLB * 256 + uBAUDCTRLA # SpecDivisor(cfgCall.baudrate)
    /\ uBAUDCTRLB > 0
    /\ uBAUDCTRLA > 0

(***************************************************************************)
(* C4..C10: the transfer functions                                         *)
(***************************************************************************)
Mosi(w) == [i \in 1..Len(w) |-> w[i][1]]

Miso(w) == [i \in 1..Len(w) |-> w[i][2]]

IsDataWrite(e) == e[1] = "wD"

IsStatusWrite(e) == e[1] = "wS"

\* the bytes written to the data register by the call, in order
LogWrites(l) == LET ws == SelectSeq(l, IsDataWrite) IN [i \in 1..Len(ws) |-> ws[i][2]]

\* C4: when xspi_send_packet(data, N) has returned, the data register was
\* written N times, with data[1..N] in order, the wire carried exactly those N
\* bytes in that order, and the buffer is as passed; with N = 0 no register
\* was accessed, not even a status register polled.  The buffer is the same
\* throughout the call.
C4_SendPacket ==
    /\ op = "xspi_send_packet" => data = data0
    /\ (op = "xspi_send_packet" /\ pc = "done") =>
        /\ iters = n0
        /\ LogWrites(log) = SubSeq(data0, 1, n0)
        /\ Mosi(wire) = SubSeq(data0, 1, n0)
        /\ n0 = 0 => (log = <<>> /\ ~polled /\ wire = <<>>)

\* a packet of MaxLen bytes, not all the same, sent whole
C4_Witness ==
    /\ op = "xspi_send_packet"
    /\ pc = "done"
    /\ n0 = MaxLen
    /\ Mosi(wire) = data0
    /\ data0[1] # data0[MaxLen]
    /\ polled

RECURSIVE GetLog(_)
\* the accesses of xspi_get_packet that receives the bytes bs
GetLog(bs) ==
    IF bs = <<>> THEN <<>>
    ELSE << <<"wD", 255>>, <<"rS">>, <<"rD", Head(bs)>> >> \o GetLog(Tail(bs))

\* C5: when xspi_get_packet(data, N) has returned, the slave was clocked N
\* times, each time with 0xFF, and data[i] is the byte it shifted back the
\* i-th time; for each byte the driver wrote 0xFF, saw the flag, then read.
C5_GetPacket ==
    (op = "xspi_get_packet" /\ pc = "done") =>
        /\ iters = n0
        /\ Len(wire) = n0
        /\ Len(data) = Len(data0)
        /\ SubSeq(data, 1, n0) = Miso(wire)
        /\ \A i \in 1..Len(wire) : wire[i][1] = 255
        /\ LogWrites(log) = [i \in 1..n0 |-> 255]
        /\ log = GetLog(Miso(wire))

\* MaxLen bytes received from a slave, the first and the last different and
\* not the filler
C5_Witness ==
    /\ op = "xspi_get_packet"
    /\ pc = "done"
    /\ wiring = "slave"
    /\ n0 = MaxLen
    /\ data[1] # data[MaxLen]
    /\ data[1] # 255
    /\ data # data0

\* xspi_usart_transfer_byte has just returned, to the caller or to
\* xspi_usart_get_packet
UsartTransferReturned ==
    \/ pc = "done" /\ op \in {"xspi_usart_transfer_byte", "xspi_usart_get_byte"}
    \/ pc = "L179"

LastN(l, n) == SubSeq(l, Len(l) - n + 1, Len(l))

SpiOps == {"xspi_transfer_byte", "xspi_send_packet", "xspi_get_packet"}

\* C6: when xspi_usart_transfer_byte returns its last four register accesses
\* were: the data write, the status read that found TXCIF set, the write that
\* clears TXCIF, the data read; and TXCIF is clear unless a frame completed
\* after the clear.  The SPI functions never write the status register, and
\* IF is clear when xspi_transfer_byte returns.
C6_FlagClear ==
    /\ UsartTransferReturned =>
        /\ Len(log) >= 4
        /\ LastN(log, 4) = << <<"wD", val>>, <<"rS">>, <<"wS">>, <<"rD", ret.v>> >>
        /\ ~uDoneSinceClr => ~uTXCIF
    /\ op \in SpiOps => SelectSeq(log, IsStatusWrite) = <<>>
    /\ (op = "xspi_transfer_byte" /\ pc = "done") => ~spiIF

\* a call that waited for its own frame returned with TXCIF clear
C6_Witness ==
    /\ op = "xspi_usart_transfer_byte"
    /\ pc = "done"
    /\ polled
    /\ ret.tag = "own"
    /\ ~uTXCIF
    /\ ~uDoneSinceClr

\* C7: xspi_transfer_byte returns the byte shifted in by the one frame of the
\* call, read after IF was seen set; with MOSI wired to MISO that is val.
C7_Loopback ==
    (op = "xspi_transfer_byte" /\ pc = "done") =>
        /\ Len(wire) = 1
        /\ wire[1][1] = val
        /\ ret.v = wire[1][2]
        /\ log = << <<"wD", val>>, <<"rS">>, <<"rD", ret.v>> >>
        /\ wiring = "loopback" => ret.v = val

\* a byte that went round, after another one had gone round before
C7_Witness ==
    /\ op = "xspi_transfer_byte"
    /\ pc = "done"
    /\ wiring = "loopback"
    /\ val = 94
    /\ ret.v = 94
    /\ polled

PacketOps == {"xspi_send_packet", "xspi_get_packet",
              "xspi_usart_send_packet", "xspi_usart_get_packet"}

\* the call is about to write a byte to the data register
AtDataWrite == pc \in {"L79", "L91", "L103", "L139", "L151"}

\* bytes the running call wrote that are not yet through: in the shift
\* register or waiting in the transmit buffer
InFlight ==
    IF path = "spi"
    THEN (IF spiBusy THEN 1 ELSE 0)
    ELSE Len(SelectSeq(uTxBuf \o uShift, LAMBDA f : f.tag \in {"own", "call"}))

\* C8 as stated: in every packet function, when a byte is written no earlier
\* byte of the packet is still in flight.
C8_NoOverlap ==
    (op \in PacketOps /\ AtDataWrite) => InFlight = 0

\* C8 as the code has it: xspi_send_packet and xspi_get_packet write a byte
\* when every earlier byte of the packet is through (as many frames done as
\* bytes written, none in flight).  xspi_usart_send_packet writes when the
\* transmit buffer is empty, so the byte before may still be in the shift
\* register: at most one in flight at the write, two after it.
\* xspi_usart_get_packet writes its second and later bytes right after a
\* TXCIF seen set was cleared and the data register read.
C8_Ordering ==
    /\ (op \in {"xspi_send_packet", "xspi_get_packet"} /\ AtDataWrite) =>
        /\ ~spiBusy
        /\ Len(wire) = Len(LogWrites(log))
        /\ Len(wire) = iters - 1
    /\ op \in {"xspi_send_packet", "xspi_get_packet"} =>
        Len(LogWrites(log)) - Len(wire) = (IF spiBusy THEN 1 ELSE 0)
    /\ (op = "xspi_usart_send_packet" /\ AtDataWrite) =>
        /\ uTxBuf = <<>>
        /\ InFlight <= 1
    /\ op = "xspi_usart_send_packet" =>
        /\ InFlight <= 2
        /\ LogWrites(log) = SubSeq(data0, 1, Len(LogWrites(log)))
    /\ (op = "xspi_usart_get_packet" /\ AtDataWrite /\ iters > 1) =>
        /\ Len(log) >= 3
        /\ LastN(log, 3)[1] = <<"rS">>
        /\ LastN(log, 3)[2] = <<"wS">>
        /\ LastN(log, 3)[3][1] = "rD"

\* xspi_usart_send_packet about to write its second byte while the first is
\* still being shifted
C8_Witness ==
    /\ op = "xspi_usart_send_packet"
    /\ pc = "L151"
    /\ iters = 2
    /\ InFlight = 1
    /\ uShift # <<>>
    /\ uShift[1].tag \in {"own", "call"}

\* C10: the byte xspi_usart_transfer_byte returns is the one shifted in while
\* the byte it wrote was shifted out.
C10_OwnByte ==
    UsartTransferReturned => ret.tag = "own"

\* a polling loop is left only with its flag set: IF for the SPI loops, TXCIF
\* for xspi_usart_transfer_byte, DREIF for xspi_usart_send_byte
LeavesLoopOnFlag ==
    /\ (pc \in {"L80", "L92", "L104"} /\ pc' # pc) => spiIF
    /\ (pc = "L140" /\ pc' # pc) => uTXCIF
    /\ (pc = "L150" /\ pc' # pc) => UsartDREIF

\* within a packet call the counter is N less the bodies entered, so it goes
\* N, N-1, .., 0 and N bodies are entered.  (The test that ends the loop
\* decrements once more: the local, dead by then, is 255 after the call.)
CountsDown ==
    op \in PacketOps =>
        /\ pc # "done" => (len = n0 - iters /\ len \in 0..n0)
        /\ pc = "done" => iters = n0
        /\ iters <= n0

\* C9: with a processor that runs and peripherals that finish their frames,
\* every call returns, a packet call after exactly N loop bodies with the
\* counter counted down from N; and no call gets past a polling loop, so none
\* returns or goes on to the next byte, unless the polled flag is set.
C9_Termination ==
    /\ (pc # "done") ~> (pc = "done")
    /\ []CountsDown
    /\ [][LeavesLoopOnFlag]_vars

\* a packet call of MaxLen bytes that had to wait has returned
C9_Witness ==
    /\ op \in PacketOps
    /\ pc = "done"
    /\ n0 = MaxLen
    /\ iters = MaxLen
    /\ polled
    /\ len = 255

====
